---- MODULE Spec2Model ----
(***************************************************************************)
(* s3service: the semantic action endpoint (cmd/semantic_api.go) in front  *)
(* of an S3-compatible object store and the local file system.             *)
(*                                                                         *)
(* Strings that the handlers take apart (keys, paths, prefixes) are        *)
(* sequences of one-character strings; "" is <<>>.  An optional value is   *)
(* a sequence of length 0 (absent) or 1 (present).                         *)
(***************************************************************************)
EXTENDS Integers, Sequences, FiniteSets, TLC

VARIABLES
    store,      \* the bucket: key -> optional object body
    files,      \* the local file system: path -> optional file content
    resp,       \* the response to the last request (and what the handler did)
    uploaded,   \* history: key -> content put by the last Completed upload of the key
    deleted,    \* history: keys whose last store write was a Completed delete
    repeated,   \* history: the last request deleted a key of `deleted` once more
    apiKey,     \* S3_API_KEY as read at start-up ("" when not set)
    edge,       \* what the router did with the last request
    inflight,   \* the downloads being handled at once: goroutine -> its locals
    life        \* main: where it stands between start-up and exit

vars == <<store, files, resp, uploaded, deleted, repeated, apiKey, edge, inflight, life>>
program == <<store, files, resp, uploaded, deleted, repeated>>

-----------------------------------------------------------------------------
(* Bounds and program constants *)

\* The store's single-page listing limit (1000 in S3), scaled down.
ListPageSize == 2

StatusOK == 200
StatusBadRequest == 400
StatusInternalServerError == 500

-----------------------------------------------------------------------------
(* Strings *)

Slash == "/"
None == <<>>
Some(v) == <<v>>
IsSome(o) == Len(o) > 0
Get(o) == o[1]

\* strings.HasPrefix, as the store applies ListObjectsV2Input.Prefix
HasPrefix(s, p) == Len(p) <= Len(s) /\ SubSeq(s, 1, Len(p)) = p

RECURSIVE StripTrailingSlashes(_)
StripTrailingSlashes(s) ==
    IF Len(s) > 0 /\ s[Len(s)] = Slash
    THEN StripTrailingSlashes(SubSeq(s, 1, Len(s) - 1))
    ELSE s

RECURSIVE LastSlash(_, _)
\* the index of the last "/" among s[1..i], 0 when there is none
LastSlash(s, i) ==
    IF i = 0 THEN 0
    ELSE IF s[i] = Slash THEN i
    ELSE LastSlash(s, i - 1)

\* filepath.Base: "" -> ".", trailing slashes dropped, the part after the
\* last slash, and "/" for a path of slashes only.
Base(path) ==
    IF path = <<>> THEN <<".">>
    ELSE LET s == StripTrailingSlashes(path)
         IN IF s = <<>> THEN <<Slash>>
            ELSE SubSeq(s, LastSlash(s, Len(s)) + 1, Len(s))

TmpDir == <<"/", "t", "m", "p">>

\* filepath.Join("/tmp", elem) for elem = filepath.Base(key): Clean("/tmp/" + elem)
JoinTmp(elem) ==
    IF elem = <<".">> \/ elem = <<Slash>> THEN TmpDir
    ELSE IF elem = <<".", ".">> THEN <<Slash>>
    ELSE TmpDir \o <<Slash>> \o elem

-----------------------------------------------------------------------------
(* The keys, paths and contents of the model *)

KeyBX == <<"b", "/", "x">>
KeyX == <<"x">>
KeyXX == <<"x", "/", "x">>
AllKeys == {KeyBX, KeyX, KeyXX}
\* the store lists keys in UTF-8 binary order
KeyOrder == <<KeyBX, KeyX, KeyXX>>

PathIn == <<"/", "i", "n", "/", "x">>
PathTmpX == <<"/", "t", "m", "p", "/", "x">>
Paths == {PathIn, PathTmpX}

InitialContent == <<0>>

-----------------------------------------------------------------------------
(* The request envelope *)

ActionPotential == "PotentialActionStatus"
ActionCompleted == "CompletedActionStatus"
ActionFailed == "FailedActionStatus"

NoTarget == [present |-> FALSE, url |-> "", accessKey |-> "", secretKey |-> "",
             bucketName |-> ""]
GoodTarget == [present |-> TRUE, url |-> "https://s3", accessKey |-> "AK",
               secretKey |-> "SK", bucketName |-> "bucket"]
CredentialFields == {"url", "accessKey", "secretKey", "bucketName"}
Without(field) == [GoodTarget EXCEPT ![field] = ""]
BadTargets == {Without(f) : f \in CredentialFields}

NoObject == [present |-> FALSE, identifier |-> <<>>, name |-> <<>>,
             contentUrl |-> <<>>, encodingFormat |-> ""]
Object(identifier, name, contentUrl) ==
    [present |-> TRUE, identifier |-> identifier, name |-> name,
     contentUrl |-> contentUrl, encodingFormat |-> "text/plain"]

Action(type, target, object, targetUrl, query) ==
    [type |-> type, target |-> target, object |-> object, targetUrl |-> targetUrl,
     query |-> query]

\* what the request lacks of its target: the target itself, one of the required
\* credential fields, or nothing
Lacks(target) ==
    IF ~target.present THEN "target"
    ELSE IF \E f \in CredentialFields : target[f] = "" THEN "credentials"
    ELSE ""

\* The envelope as parsed from the request, before any handler touched it.
Envelope(action) ==
    [type |-> action.type, handler |-> "none", http |-> 0, httpError |-> "",
     actionStatus |-> ActionPotential, error |-> "", result |-> None,
     storeCalls |-> <<>>, s3Key |-> <<>>, localPath |-> <<>>, query |-> None,
     lacks |-> Lacks(action.target), hasObject |-> action.object.present,
     object |-> action.object, targetUrl |-> action.targetUrl, statusWrites |-> 0]

Out(r, st, fs) == [resp |-> r, store |-> st, files |-> fs]

-----------------------------------------------------------------------------
(* The collaborators: the semantic helpers, the store and the file system *)

\* semantic.GetS3BucketFromAction: the target descriptor, or an error without one
GetS3BucketFromAction(action) == [err |-> ~action.target.present, bucket |-> action.target]

\* semantic.GetS3ObjectFromAction: the object descriptor, or an error without one
GetS3ObjectFromAction(action) == [err |-> ~action.object.present, object |-> action.object]

\* semantic.ExtractS3Credentials: fails when a required field is absent
ExtractS3Credentials(bucket) ==
    [err |-> \E f \in CredentialFields : bucket[f] = "",
     url |-> bucket.url, accessKey |-> bucket.accessKey,
     secretKey |-> bucket.secretKey, bucketName |-> bucket.bucketName]

\* semantic.GetS3TargetUrlFromAction
GetS3TargetUrlFromAction(action) == action.targetUrl

\* (mutant) the error is set but the status is left as it was
returnError_KeepsStatus(r, message) ==
    [r EXCEPT !.error = message, !.http = StatusInternalServerError]

\* An error response: the status becomes Failed, the error property is set and
\* the envelope is sent with 500.
returnError(r, message) ==
    [r EXCEPT !.actionStatus = ActionFailed, !.error = message,
              !.http = StatusInternalServerError, !.statusWrites = @ + 1]

\* semantic.SetSuccessOnAction followed by c.JSON(http.StatusOK, action)
\* (mutant) the status is never set on success
SetSuccessOnAction_Forgotten(r) == r

SetSuccessOnAction(r) ==
    [r EXCEPT !.actionStatus = ActionCompleted, !.statusWrites = @ + 1]

\* (mutant) a successful envelope sent with the status of an error response
JSONOK_500(r) == [r EXCEPT !.http = StatusInternalServerError]

JSONOK(r) == [r EXCEPT !.http = StatusOK]

\* echo.NewHTTPError(http.StatusBadRequest, ...): no envelope is sent back
BadRequest(r, message) == [r EXCEPT !.http = StatusBadRequest, !.httpError = message]

Call(op, key, ok) == [op |-> op, key |-> key, ok |-> ok]

\* createS3Client: fails when the AWS configuration cannot be loaded
createS3Client(fault) == [err |-> fault.at = "config"]

\* (mutant) the file is also put under the base name of its key
HetznerUploadFile_AlsoBaseName(st, fs, filePath, s3Key, fault) ==
    IF ~IsSome(fs[filePath])
    THEN [err |-> TRUE, store |-> st, calls |-> <<>>]
    ELSE IF fault.at = "store"
    THEN [err |-> TRUE, store |-> st, calls |-> <<Call("PutObject", s3Key, FALSE)>>]
    ELSE [err |-> FALSE,
          store |-> [st EXCEPT ![s3Key] = fs[filePath], ![Base(s3Key)] = fs[filePath]],
          calls |-> <<Call("PutObject", s3Key, TRUE)>>]

\* storage.HetznerUploadFile: reads the local file and puts it under s3Key
HetznerUploadFile(st, fs, filePath, s3Key, fault) ==
    IF ~IsSome(fs[filePath])
    THEN [err |-> TRUE, store |-> st, calls |-> <<>>]
    ELSE IF fault.at = "store"
    THEN [err |-> TRUE, store |-> st, calls |-> <<Call("PutObject", s3Key, FALSE)>>]
    ELSE [err |-> FALSE, store |-> [st EXCEPT ![s3Key] = fs[filePath]],
          calls |-> <<Call("PutObject", s3Key, TRUE)>>]

\* (mutant) a failed fetch is issued once more
GetObject_Retried(st, s3Key, fault) ==
    IF fault.at = "store" \/ ~IsSome(st[s3Key])
    THEN [err |-> TRUE, body |-> <<>>,
          calls |-> <<Call("GetObject", s3Key, FALSE), Call("GetObject", s3Key, FALSE)>>]
    ELSE [err |-> FALSE, body |-> Get(st[s3Key]),
          calls |-> <<Call("GetObject", s3Key, TRUE)>>]

\* client.GetObject: the body of the object, an error for an absent key
GetObject(st, s3Key, fault) ==
    IF fault.at = "store" \/ ~IsSome(st[s3Key])
    THEN [err |-> TRUE, body |-> <<>>, calls |-> <<Call("GetObject", s3Key, FALSE)>>]
    ELSE [err |-> FALSE, body |-> Get(st[s3Key]),
          calls |-> <<Call("GetObject", s3Key, TRUE)>>]

\* (mutant) the delete reports success and removes nothing
DeleteObject_Kept(st, s3Key, fault) ==
    [err |-> fault.at = "store", store |-> st,
     calls |-> <<Call("DeleteObject", s3Key, fault.at # "store")>>]

\* (mutant) the delete removes every key under s3Key taken as a prefix
DeleteObject_ByPrefix(st, s3Key, fault) ==
    IF fault.at = "store"
    THEN [err |-> TRUE, store |-> st, calls |-> <<Call("DeleteObject", s3Key, FALSE)>>]
    ELSE [err |-> FALSE,
          store |-> [k \in DOMAIN st |-> IF HasPrefix(k, s3Key) THEN None ELSE st[k]],
          calls |-> <<Call("DeleteObject", s3Key, TRUE)>>]

\* client.DeleteObject: removes the key; deleting an absent key succeeds
DeleteObject(st, s3Key, fault) ==
    IF fault.at = "store"
    THEN [err |-> TRUE, store |-> st, calls |-> <<Call("DeleteObject", s3Key, FALSE)>>]
    ELSE [err |-> FALSE, store |-> [st EXCEPT ![s3Key] = None],
          calls |-> <<Call("DeleteObject", s3Key, TRUE)>>]

Min(a, b) == IF a < b THEN a ELSE b

\* client.ListObjectsV2: one page of the stored keys under the prefix, in key order
ListObjectsV2(st, prefix, fault) ==
    LET Listed(k) == IsSome(st[k]) /\ (IsSome(prefix) => HasPrefix(k, Get(prefix)))
        matching == SelectSeq(KeyOrder, Listed)
        page == SubSeq(matching, 1, Min(Len(matching), ListPageSize))
        pfx == IF IsSome(prefix) THEN Get(prefix) ELSE <<>>
    IN IF fault.at = "store"
       THEN [err |-> TRUE, contents |-> <<>>,
             calls |-> <<Call("ListObjectsV2", pfx, FALSE)>>]
       ELSE [err |-> FALSE,
             contents |-> [i \in 1..Len(page) |->
                             [key |-> page[i], size |-> Len(Get(st[page[i]]))]],
             calls |-> <<Call("ListObjectsV2", pfx, TRUE)>>]

\* (mutant) an existing file is opened without being truncated
Create_NoTruncate(fs, path) ==
    IF IsSome(fs[path]) THEN fs ELSE [fs EXCEPT ![path] = Some(<<>>)]

\* os.Create: the file exists and is empty afterwards
Create(fs, path) == [fs EXCEPT ![path] = Some(<<>>)]

\* (mutant) the copy stops one byte short and reports no error
Copy_Short(fs, path, body, fault) ==
    LET n == IF Len(body) > 0 THEN Len(body) - 1 ELSE 0
    IN [err |-> fault.at = "copy", size |-> n,
        files |-> [fs EXCEPT ![path] = Some(SubSeq(body, 1, n))]]

\* io.Copy: the bytes that reached the file (all of them without a fault)
Copy(fs, path, body, fault) ==
    IF fault.at = "copy"
    THEN [err |-> TRUE, size |-> Min(fault.written, Len(body)),
          files |-> [fs EXCEPT ![path] = Some(SubSeq(body, 1, Min(fault.written, Len(body))))]]
    ELSE [err |-> FALSE, size |-> Len(body), files |-> [fs EXCEPT ![path] = Some(body)]]

-----------------------------------------------------------------------------
(* The handlers.  Each yields the response, the store and the file system it *)
(* leaves; `fault` is the one step of the environment that fails, if any.     *)

\* (mutant) the object identifier is preferred to the target key
UploadKey_IdentifierFirst(targetUrl, identifier, filePath) ==
    IF identifier # <<>> THEN identifier
    ELSE IF targetUrl # <<>> THEN targetUrl
    ELSE Base(filePath)

\* the key of an upload: the target key, else the identifier, else the base
\* name of the local path
UploadKey(targetUrl, identifier, filePath) ==
    IF targetUrl # <<>> THEN targetUrl
    ELSE IF identifier # <<>> THEN identifier
    ELSE Base(filePath)

\* (mutant) the object name is preferred to the identifier
ObjectKey_NameFirst(object) ==
    IF object.name # <<>> THEN object.name ELSE object.identifier

\* the key of a download or delete: the identifier, else the name
ObjectKey(object) ==
    IF object.identifier # <<>> THEN object.identifier ELSE object.name

\* (mutant) the size reported for every file is zero
Stat_Empty(fs, path, fault) == [err |-> fault.at = "stat", size |-> 0]

\* os.Stat on the uploaded local file: its size, unless the call fails
Stat(fs, path, fault) == [err |-> fault.at = "stat", size |-> Len(Get(fs[path]))]

\* executeUploadAction: CreateAction, a local file to the store
executeUploadAction(action, fault, st, fs) ==
    LET env == [Envelope(action) EXCEPT !.handler = "upload"]
        bucket == GetS3BucketFromAction(action)
        object == GetS3ObjectFromAction(action)
        creds == ExtractS3Credentials(bucket.bucket)
        filePath == object.object.contentUrl
        targetUrl == GetS3TargetUrlFromAction(action)
        s3Key == UploadKey(targetUrl, object.object.identifier, filePath)
        put == HetznerUploadFile(st, fs, filePath, s3Key, fault)
        sent == [env EXCEPT !.s3Key = s3Key, !.localPath = filePath,
                            !.storeCalls = put.calls]
        fileInfo == Stat(fs, filePath, fault)
        result == [type |-> "MediaObject", identifier |-> s3Key, name |-> Base(filePath),
                   contentUrl |-> <<creds.bucketName, s3Key>>,
                   contentSize |-> fileInfo.size,
                   encodingFormat |-> object.object.encodingFormat,
                   uploadDate |-> "now"]
    IN IF bucket.err THEN Out(returnError(env, "Failed to extract S3 bucket"), st, fs)
       ELSE IF object.err THEN Out(returnError(env, "Failed to extract S3 object"), st, fs)
       ELSE IF creds.err
       THEN Out(returnError(env, "Failed to extract S3 credentials"), st, fs)
       ELSE IF filePath = <<>>
       THEN Out(returnError(env, "Object contentUrl (file path) is required"), st, fs)
       ELSE IF put.err THEN Out(returnError(sent, "Failed to upload file"), st, fs)
       ELSE IF fileInfo.err
       THEN Out(JSONOK(SetSuccessOnAction(sent)), put.store, fs)
       ELSE Out(JSONOK(SetSuccessOnAction([sent EXCEPT !.result = Some(result)])),
                put.store, fs)

\* (mutant) the request-supplied path is ignored
DownloadPath_AlwaysDefault(contentUrl, s3Key) == JoinTmp(Base(s3Key))

\* the local path of a download: the request's contentUrl, else /tmp/<base
\* name of the key>
DownloadPath(contentUrl, s3Key) ==
    IF contentUrl # <<>> THEN contentUrl ELSE JoinTmp(Base(s3Key))

\* (mutant) every failure after the client is built carries the same message
executeDownloadAction_OneMessage(action, fault, st, fs) ==
    LET env == [Envelope(action) EXCEPT !.handler = "download"]
        bucket == GetS3BucketFromAction(action)
        object == GetS3ObjectFromAction(action)
        creds == ExtractS3Credentials(bucket.bucket)
        s3Key == ObjectKey(object.object)
        downloadPath == DownloadPath(object.object.contentUrl, s3Key)
        keyed == [env EXCEPT !.s3Key = s3Key, !.localPath = downloadPath]
        client == createS3Client(fault)
        got == GetObject(st, s3Key, fault)
        sent == [keyed EXCEPT !.storeCalls = got.calls]
        created == Create(fs, downloadPath)
        copied == Copy(created, downloadPath, got.body, fault)
        downloadedObject ==
            [type |-> "MediaObject", identifier |-> s3Key, name |-> Base(s3Key),
             contentUrl |-> downloadPath, contentSize |-> copied.size,
             encodingFormat |-> object.object.encodingFormat]
    IN IF bucket.err THEN Out(returnError(env, "Failed to extract S3 bucket"), st, fs)
       ELSE IF object.err THEN Out(returnError(env, "Failed to extract S3 object"), st, fs)
       ELSE IF creds.err
       THEN Out(returnError(env, "Failed to extract S3 credentials"), st, fs)
       ELSE IF s3Key = <<>>
       THEN Out(returnError(env, "Object identifier (S3 key) is required"), st, fs)
       ELSE IF client.err
       THEN Out(returnError(keyed, "Failed to create S3 client"), st, fs)
       ELSE IF got.err THEN Out(returnError(sent, "Failed to download file"), st, fs)
       ELSE IF fault.at = "create"
       THEN Out(returnError(sent, "Failed to download file"), st, fs)
       ELSE IF copied.err
       THEN Out(returnError(sent, "Failed to download file"), st, copied.files)
       ELSE Out(JSONOK(SetSuccessOnAction([sent EXCEPT !.result = Some(downloadedObject)])),
                st, copied.files)

\* (mutant) the local file is created before the object is fetched
executeDownloadAction_CreatesFirst(action, fault, st, fs) ==
    LET env == [Envelope(action) EXCEPT !.handler = "download"]
        bucket == GetS3BucketFromAction(action)
        object == GetS3ObjectFromAction(action)
        creds == ExtractS3Credentials(bucket.bucket)
        s3Key == ObjectKey(object.object)
        downloadPath == DownloadPath(object.object.contentUrl, s3Key)
        keyed == [env EXCEPT !.s3Key = s3Key, !.localPath = downloadPath]
        client == createS3Client(fault)
        got == GetObject(st, s3Key, fault)
        sent == [keyed EXCEPT !.storeCalls = got.calls]
        created == Create(fs, downloadPath)
        copied == Copy(created, downloadPath, got.body, fault)
        downloadedObject ==
            [type |-> "MediaObject", identifier |-> s3Key, name |-> Base(s3Key),
             contentUrl |-> downloadPath, contentSize |-> copied.size,
             encodingFormat |-> object.object.encodingFormat]
    IN IF bucket.err THEN Out(returnError(env, "Failed to extract S3 bucket"), st, fs)
       ELSE IF object.err THEN Out(returnError(env, "Failed to extract S3 object"), st, fs)
       ELSE IF creds.err
       THEN Out(returnError(env, "Failed to extract S3 credentials"), st, fs)
       ELSE IF s3Key = <<>>
       THEN Out(returnError(env, "Object identifier (S3 key) is required"), st, fs)
       ELSE IF client.err
       THEN Out(returnError(keyed, "Failed to create S3 client"), st, fs)
       ELSE IF got.err THEN Out(returnError(sent, "Failed to download file"), st, created)
       ELSE IF fault.at = "create"
       THEN Out(returnError(sent, "Failed to create local file"), st, fs)
       ELSE IF copied.err
       THEN Out(returnError(sent, "Failed to write file"), st, copied.files)
       ELSE Out(JSONOK(SetSuccessOnAction([sent EXCEPT !.result = Some(downloadedObject)])),
                st, copied.files)

\* executeDownloadAction: DownloadAction, an object of the store to a local file
executeDownloadAction(action, fault, st, fs) ==
    LET env == [Envelope(action) EXCEPT !.handler = "download"]
        bucket == GetS3BucketFromAction(action)
        object == GetS3ObjectFromAction(action)
        creds == ExtractS3Credentials(bucket.bucket)
        s3Key == ObjectKey(object.object)
        downloadPath == DownloadPath(object.object.contentUrl, s3Key)
        keyed == [env EXCEPT !.s3Key = s3Key, !.localPath = downloadPath]
        client == createS3Client(fault)
        got == GetObject(st, s3Key, fault)
        sent == [keyed EXCEPT !.storeCalls = got.calls]
        created == Create(fs, downloadPath)
        copied == Copy(created, downloadPath, got.body, fault)
        downloadedObject ==
            [type |-> "MediaObject", identifier |-> s3Key, name |-> Base(s3Key),
             contentUrl |-> downloadPath, contentSize |-> copied.size,
             encodingFormat |-> object.object.encodingFormat]
    IN IF bucket.err THEN Out(returnError(env, "Failed to extract S3 bucket"), st, fs)
       ELSE IF object.err THEN Out(returnError(env, "Failed to extract S3 object"), st, fs)
       ELSE IF creds.err
       THEN Out(returnError(env, "Failed to extract S3 credentials"), st, fs)
       ELSE IF s3Key = <<>>
       THEN Out(returnError(env, "Object identifier (S3 key) is required"), st, fs)
       ELSE IF client.err
       THEN Out(returnError(keyed, "Failed to create S3 client"), st, fs)
       ELSE IF got.err THEN Out(returnError(sent, "Failed to download file"), st, fs)
       ELSE IF fault.at = "create"
       THEN Out(returnError(sent, "Failed to create local file"), st, fs)
       ELSE IF copied.err
       THEN Out(returnError(sent, "Failed to write file"), st, copied.files)
       ELSE Out(JSONOK(SetSuccessOnAction([sent EXCEPT !.result = Some(downloadedObject)])),
                st, copied.files)

\* (mutant) the outcome of the delete call is not looked at
executeDeleteAction_IgnoresError(action, fault, st, fs) ==
    LET env == [Envelope(action) EXCEPT !.handler = "delete"]
        bucket == GetS3BucketFromAction(action)
        object == GetS3ObjectFromAction(action)
        creds == ExtractS3Credentials(bucket.bucket)
        s3Key == ObjectKey(object.object)
        keyed == [env EXCEPT !.s3Key = s3Key]
        client == createS3Client(fault)
        del == DeleteObject(st, s3Key, fault)
        sent == [keyed EXCEPT !.storeCalls = del.calls]
    IN IF bucket.err THEN Out(returnError(env, "Failed to extract S3 bucket"), st, fs)
       ELSE IF object.err THEN Out(returnError(env, "Failed to extract S3 object"), st, fs)
       ELSE IF creds.err
       THEN Out(returnError(env, "Failed to extract S3 credentials"), st, fs)
       ELSE IF s3Key = <<>>
       THEN Out(returnError(env, "Object identifier (S3 key) is required"), st, fs)
       ELSE IF client.err
       THEN Out(returnError(keyed, "Failed to create S3 client"), st, fs)
       ELSE Out(JSONOK(SetSuccessOnAction(sent)), del.store, fs)

\* (mutant) the object is fetched before the delete, which is skipped for a
\* key that is not there
executeDeleteAction_ChecksFirst(action, fault, st, fs) ==
    LET env == [Envelope(action) EXCEPT !.handler = "delete"]
        bucket == GetS3BucketFromAction(action)
        object == GetS3ObjectFromAction(action)
        creds == ExtractS3Credentials(bucket.bucket)
        s3Key == ObjectKey(object.object)
        keyed == [env EXCEPT !.s3Key = s3Key]
        client == createS3Client(fault)
        got == GetObject(st, s3Key, fault)
        checked == [keyed EXCEPT !.storeCalls = got.calls]
        del == DeleteObject(st, s3Key, fault)
        sent == [keyed EXCEPT !.storeCalls = got.calls \o del.calls]
    IN IF bucket.err THEN Out(returnError(env, "Failed to extract S3 bucket"), st, fs)
       ELSE IF object.err THEN Out(returnError(env, "Failed to extract S3 object"), st, fs)
       ELSE IF creds.err
       THEN Out(returnError(env, "Failed to extract S3 credentials"), st, fs)
       ELSE IF s3Key = <<>>
       THEN Out(returnError(env, "Object identifier (S3 key) is required"), st, fs)
       ELSE IF client.err
       THEN Out(returnError(keyed, "Failed to create S3 client"), st, fs)
       ELSE IF got.err THEN Out(returnError(checked, "Failed to delete file"), st, fs)
       ELSE IF del.err THEN Out(returnError(sent, "Failed to delete file"), st, fs)
       ELSE Out(JSONOK(SetSuccessOnAction(sent)), del.store, fs)

\* executeDeleteAction: DeleteAction, an object removed from the store
executeDeleteAction(action, fault, st, fs) ==
    LET env == [Envelope(action) EXCEPT !.handler = "delete"]
        bucket == GetS3BucketFromAction(action)
        object == GetS3ObjectFromAction(action)
        creds == ExtractS3Credentials(bucket.bucket)
        s3Key == ObjectKey(object.object)
        keyed == [env EXCEPT !.s3Key = s3Key]
        client == createS3Client(fault)
        del == DeleteObject(st, s3Key, fault)
        sent == [keyed EXCEPT !.storeCalls = del.calls]
    IN IF bucket.err THEN Out(returnError(env, "Failed to extract S3 bucket"), st, fs)
       ELSE IF object.err THEN Out(returnError(env, "Failed to extract S3 object"), st, fs)
       ELSE IF creds.err
       THEN Out(returnError(env, "Failed to extract S3 credentials"), st, fs)
       ELSE IF s3Key = <<>>
       THEN Out(returnError(env, "Object identifier (S3 key) is required"), st, fs)
       ELSE IF client.err
       THEN Out(returnError(keyed, "Failed to create S3 client"), st, fs)
       ELSE IF del.err THEN Out(returnError(sent, "Failed to delete file"), st, fs)
       ELSE Out(JSONOK(SetSuccessOnAction(sent)), del.store, fs)

\* (mutant) the query never reaches the listing input
ListPrefix_Dropped(query) == None

\* the Prefix of the listing input: the query, when it is a non-empty string
ListPrefix(query) == IF IsSome(query) /\ Get(query) # <<>> THEN query ELSE None

\* (mutant) the identifier is the base name of the key
ListResult_BaseName(contents, bucketName) ==
    [i \in 1..Len(contents) |->
        [type |-> "MediaObject", identifier |-> Base(contents[i].key),
         name |-> Base(contents[i].key),
         contentUrl |-> <<bucketName, contents[i].key>>,
         contentSize |-> contents[i].size, uploadDate |-> "lastModified"]]

\* the descriptors built from one page of the store's listing
ListResult(contents, bucketName) ==
    [i \in 1..Len(contents) |->
        [type |-> "MediaObject", identifier |-> contents[i].key,
         name |-> Base(contents[i].key),
         contentUrl |-> <<bucketName, contents[i].key>>,
         contentSize |-> contents[i].size, uploadDate |-> "lastModified"]]

\* (mutant) the listing goes ahead whatever the credentials
executeListAction_NoCredentialCheck(action, fault, st, fs) ==
    LET env == [Envelope(action) EXCEPT !.handler = "list", !.query = action.query]
        bucket == GetS3BucketFromAction(action)
        creds == ExtractS3Credentials(bucket.bucket)
        client == createS3Client(fault)
        listed == ListObjectsV2(st, ListPrefix(action.query), fault)
        sent == [env EXCEPT !.storeCalls = listed.calls]
        objects == ListResult(listed.contents, creds.bucketName)
    IN IF bucket.err THEN Out(returnError(env, "Failed to extract S3 bucket"), st, fs)
       ELSE IF client.err THEN Out(returnError(env, "Failed to create S3 client"), st, fs)
       ELSE IF listed.err THEN Out(returnError(sent, "Failed to list objects"), st, fs)
       ELSE Out(JSONOK(SetSuccessOnAction([sent EXCEPT !.result = Some(objects)])), st, fs)

\* executeListAction: SearchAction, the objects under a prefix
executeListAction(action, fault, st, fs) ==
    LET env == [Envelope(action) EXCEPT !.handler = "list", !.query = action.query]
        bucket == GetS3BucketFromAction(action)
        creds == ExtractS3Credentials(bucket.bucket)
        client == createS3Client(fault)
        listed == ListObjectsV2(st, ListPrefix(action.query), fault)
        sent == [env EXCEPT !.storeCalls = listed.calls]
        objects == ListResult(listed.contents, creds.bucketName)
    IN IF bucket.err THEN Out(returnError(env, "Failed to extract S3 bucket"), st, fs)
       ELSE IF creds.err
       THEN Out(returnError(env, "Failed to extract S3 credentials"), st, fs)
       ELSE IF client.err THEN Out(returnError(env, "Failed to create S3 client"), st, fs)
       ELSE IF listed.err THEN Out(returnError(sent, "Failed to list objects"), st, fs)
       ELSE Out(JSONOK(SetSuccessOnAction([sent EXCEPT !.result = Some(objects)])), st, fs)

\* semantic.ParseSemanticAction: the action of a body that is a JSON object
ParseSemanticAction(body) == [err |-> ~body.json, action |-> body.action]

\* (mutant) an unknown @type falls through to the list handler
handleSemanticAction_SilentDefault(body, fault, st, fs) ==
    LET parsed == ParseSemanticAction(body)
        action == parsed.action
    IN IF parsed.err
       THEN Out(BadRequest(Envelope(action), "Failed to parse action"), st, fs)
       ELSE CASE action.type = "CreateAction" -> executeUploadAction(action, fault, st, fs)
              [] action.type = "DownloadAction" -> executeDownloadAction(action, fault, st, fs)
              [] action.type = "DeleteAction" -> executeDeleteAction(action, fault, st, fs)
              [] OTHER -> executeListAction(action, fault, st, fs)

\* handleSemanticAction: parse the body and route on @type
handleSemanticAction(body, fault, st, fs) ==
    LET parsed == ParseSemanticAction(body)
        action == parsed.action
    IN IF parsed.err
       THEN Out(BadRequest(Envelope(action), "Failed to parse action"), st, fs)
       ELSE CASE action.type = "CreateAction" -> executeUploadAction(action, fault, st, fs)
              [] action.type = "DownloadAction" -> executeDownloadAction(action, fault, st, fs)
              [] action.type = "DeleteAction" -> executeDeleteAction(action, fault, st, fs)
              [] action.type = "SearchAction" -> executeListAction(action, fault, st, fs)
              [] OTHER -> Out(BadRequest(Envelope(action), "Unsupported action type"), st, fs)

-----------------------------------------------------------------------------
(* The requests and the faults of the environment *)

Fault(at) == [at |-> at, written |-> 0]
NoFault == Fault("none")
UploadFaults == {NoFault, Fault("store"), Fault("stat")}
DownloadFaults ==
    {NoFault, Fault("config"), Fault("store"), Fault("create")}
        \cup {[at |-> "copy", written |-> n] : n \in 0..(Len(InitialContent) - 1)}
DeleteFaults == {NoFault, Fault("config"), Fault("store")}
ListFaults == {NoFault, Fault("config"), Fault("store")}

\* a body that is a JSON object, and the one that is not
Json(action) == [json |-> TRUE, action |-> action]
Malformed == [json |-> FALSE, action |-> Action("", NoTarget, NoObject, <<>>, None)]

\* the objects of upload requests: identifier and local source path
UploadObjects ==
    {NoObject, Object(KeyBX, <<>>, <<>>), Object(<<>>, <<>>, PathIn),
     Object(KeyBX, <<>>, PathIn), Object(KeyBX, <<>>, PathTmpX)}
\* the objects of download and delete requests: identifier, name, local path
KeyedObjects(paths) ==
    {NoObject, Object(<<>>, <<>>, <<>>), Object(<<>>, KeyBX, <<>>),
     Object(KeyX, KeyBX, <<>>), Object(KeyXX, <<>>, <<>>)}
        \cup {Object(KeyBX, <<>>, path) : path \in paths}
Queries == {None, Some(<<>>), Some(<<"x">>), Some(<<"b", "/">>)}

\* requests with every object under good credentials; with a bad or missing
\* target, one object, and once no object at all
Requests(type, objects, probe, targetUrls) ==
    {Action(type, GoodTarget, o, t, None) : o \in objects, t \in targetUrls}
        \cup {Action(type, tg, probe, <<>>, None) : tg \in BadTargets \cup {NoTarget}}
        \cup {Action(type, Without("url"), NoObject, <<>>, None)}

UploadRequests ==
    Requests("CreateAction", UploadObjects, Object(KeyBX, <<>>, PathIn), {<<>>, KeyXX})
DownloadRequests ==
    Requests("DownloadAction", KeyedObjects({PathIn}),
             Object(KeyBX, <<>>, PathIn), {<<>>})
DeleteRequests ==
    Requests("DeleteAction", KeyedObjects({<<>>}), Object(KeyBX, <<>>, <<>>), {<<>>})
ListRequests ==
    {Action("SearchAction", GoodTarget, NoObject, <<>>, q) : q \in Queries}
        \cup {Action("SearchAction", tg, NoObject, <<>>, Some(<<"x">>)) :
                tg \in BadTargets \cup {NoTarget}}
UnsupportedRequests ==
    {Action(t, GoodTarget, Object(KeyBX, <<>>, PathIn), <<>>, None) :
        t \in {"UpdateAction", "UploadAction"}}

-----------------------------------------------------------------------------
(* History, kept beside the program's state *)

PutIssued(r) == r.handler = "upload" /\ r.storeCalls # <<>>
DeleteIssued(r) == r.handler = "delete" /\ r.storeCalls # <<>>

\* the local content put by the last Completed upload of each key, forgotten
\* when a later delete of the key completes
Uploaded(up, r, fs) ==
    IF PutIssued(r) /\ r.actionStatus = ActionCompleted
    THEN [up EXCEPT ![r.s3Key] = fs[r.localPath]]
    ELSE IF DeleteIssued(r) /\ r.actionStatus = ActionCompleted
    THEN [up EXCEPT ![r.s3Key] = None]
    ELSE up

\* the keys deleted by a Completed delete and not written by an upload since
Deleted(del, r) ==
    IF DeleteIssued(r) /\ r.actionStatus = ActionCompleted THEN del \cup {r.s3Key}
    ELSE IF PutIssued(r) /\ r.actionStatus = ActionCompleted THEN del \ {r.s3Key}
    ELSE del

-----------------------------------------------------------------------------
(* The state machine: one request to POST /v1/api/semantic/action at a time *)

NoResponse == Envelope(Malformed.action)

\* a request as the REST endpoints bind it: body or parameters
Rest(bound, key, content, name) ==
    [bound |-> bound, key |-> key, content |-> content, name |-> name]
NoRest == Rest(TRUE, <<>>, "", <<>>)

Edge(route, presented, admitted, reached, http, error, request, forwarded) ==
    [route |-> route, presented |-> presented, admitted |-> admitted,
     reached |-> reached, http |-> http, error |-> error, request |-> request,
     forwarded |-> forwarded]
NoEdge == Edge("none", None, FALSE, FALSE, 0, "", NoRest, None)

\* The request handlers that run at once, each on its own goroutine
Goroutines == {1, 2}

\* the locals of one handler: where it stands, its envelope, the body it
\* fetched, the bytes it has copied and (history) the goroutines that had
\* answered before it began
Slot(pc, action, env, body, written, after) ==
    [pc |-> pc, action |-> action, env |-> env, body |-> body, written |-> written,
     after |-> after]
IdleSlot == Slot("idle", Malformed.action, NoResponse, <<>>, 0, {})

\* main and the server it starts: the statement main has reached, the calls
\* made to the registry, whether the registry lists the service, the state
\* of the HTTP server and the errors logged
Life(phase, registrations, unregistrations, registered, server, log) ==
    [phase |-> phase, registrations |-> registrations,
     unregistrations |-> unregistrations, registered |-> registered,
     server |-> server, log |-> log]
Fresh == Life("init", 0, 0, FALSE, "new", <<>>)

\* (mutant) a failed registration ends the process
AutoRegister_Fatal(l, ok) ==
    IF ok
    THEN [l EXCEPT !.phase = "registered", !.registrations = @ + 1, !.registered = TRUE]
    ELSE [l EXCEPT !.phase = "stopped", !.registrations = @ + 1,
                   !.log = Append(@, "Failed to register with registry")]

\* registry.AutoRegister and the branch on its error: the error is logged
AutoRegister(l, ok) ==
    [l EXCEPT !.phase = "registered", !.registrations = @ + 1, !.registered = ok,
              !.log = IF ok THEN @ ELSE Append(@, "Failed to register with registry")]

\* go func() { e.Start(...) }(): the server goroutine exists, main goes on to
\* wait for a signal
Go(l) == [l EXCEPT !.phase = "waiting", !.server = "starting"]

\* e.Start in the server goroutine: the server listens, or the error is logged
Start(l, ok) ==
    IF ok THEN [l EXCEPT !.server = "listening"]
    ELSE [l EXCEPT !.server = "failed", !.log = Append(@, "Server error")]

\* <-quit: SIGINT or SIGTERM arrived
Quit(l) == [l EXCEPT !.phase = "shutting"]

\* registry.AutoUnregister and the branch on its error: the error is logged
AutoUnregister(l, ok) ==
    [l EXCEPT !.phase = "unregistered", !.unregistrations = @ + 1,
              !.registered = IF ok THEN FALSE ELSE @,
              !.log = IF ok THEN @ ELSE Append(@, "Failed to unregister from registry")]

\* e.Close and the branch on its error: the server is closed, the error logged
Close(l, ok) ==
    [l EXCEPT !.phase = "closed", !.server = "closed",
              !.log = IF ok THEN @ ELSE Append(@, "Error during shutdown")]

\* main returns after logging "Server stopped"
Return(l) == [l EXCEPT !.phase = "stopped"]

\* the server as the request handlers see it: started and listening
Listening == Start(Go(AutoRegister(Fresh, TRUE)), TRUE)

\* nothing stored, one local file to upload, nothing answered yet
Empty ==
    /\ store = [k \in AllKeys |-> None]
    /\ files = [p \in Paths |-> IF p = PathIn THEN Some(InitialContent) ELSE None]
    /\ resp = NoResponse
    /\ uploaded = [k \in AllKeys |-> None]
    /\ deleted = {}
    /\ repeated = FALSE
    /\ edge = NoEdge
    /\ inflight = [g \in Goroutines |-> IdleSlot]

\* the server in development mode: no key configured, the handler registered
\* without middleware
Init == Empty /\ apiKey = "" /\ life = Listening

\* the outcome of the handler becomes the response and the new state
Respond(out) ==
    /\ resp' = out.resp
    /\ store' = out.store
    /\ files' = out.files
    /\ uploaded' = Uploaded(uploaded, out.resp, files)
    /\ deleted' = Deleted(deleted, out.resp)
    /\ repeated' = (DeleteIssued(out.resp) /\ out.resp.s3Key \in deleted)

Serve(body, fault) ==
    /\ \E out \in {handleSemanticAction(body, fault, store, files)} : Respond(out)
    /\ UNCHANGED <<apiKey, edge, inflight, life>>

\* a request that lacks credentials ends before any step of the environment
Meets(a, f) == a.target = GoodTarget \/ f = NoFault

PostCreateAction ==
    \E a \in UploadRequests, f \in UploadFaults : Meets(a, f) /\ Serve(Json(a), f)
PostDownloadAction ==
    \E a \in DownloadRequests, f \in DownloadFaults : Meets(a, f) /\ Serve(Json(a), f)
PostDeleteAction ==
    \E a \in DeleteRequests, f \in DeleteFaults : Meets(a, f) /\ Serve(Json(a), f)
PostSearchAction ==
    \E a \in ListRequests, f \in ListFaults : Meets(a, f) /\ Serve(Json(a), f)
PostUnsupportedAction == \E a \in UnsupportedRequests : Serve(Json(a), NoFault)
PostMalformed == Serve(Malformed, NoFault)

Next ==
    \/ PostCreateAction
    \/ PostDownloadAction
    \/ PostDeleteAction
    \/ PostSearchAction
    \/ PostUnsupportedAction
    \/ PostMalformed

Spec == Init /\ [][Next]_vars

-----------------------------------------------------------------------------
(* The routes: /health, the action endpoint behind the API key, and the REST  *)
(* endpoints that turn a request into an envelope for the action handler.     *)

Secret == "secret"
ApiKeys == {"", Secret}
PresentedKeys == {None, Some(Secret), Some("wrong")}

\* the validator given to middleware.KeyAuth: the key must be the configured one
KeyAuth(configured, presented) == IsSome(presented) /\ Get(presented) = configured

\* (mutant) the action endpoint registered without the middleware in every mode
ActionRoute_Open(configured, presented) == TRUE

\* the action endpoint: behind the middleware only when a key is configured
ActionRoute(configured, presented) ==
    IF configured # "" THEN KeyAuth(configured, presented) ELSE TRUE

\* (mutant) /health registered behind the API key
HealthRoute_Keyed(configured, presented) ==
    IF ActionRoute(configured, presented)
    THEN [admitted |-> TRUE, http |-> StatusOK]
    ELSE [admitted |-> FALSE, http |-> 0]

\* /health: registered on the server itself, before and without the middleware
HealthRoute(configured, presented) == [admitted |-> TRUE, http |-> StatusOK]

\* what a REST endpoint does with its request: answer it, or forward an envelope
Direct(http, message) == [http |-> http, error |-> message, forwarded |-> None]
Forward(action) == [http |-> 0, error |-> "", forwarded |-> Some(action)]

\* the object of a REST envelope: identifier and name, no contentUrl; its
\* "text" and the "instrument" naming the bucket are read by no handler
RestObject(identifier, name) ==
    [Object(identifier, name, <<>>) EXCEPT !.encodingFormat = ""]

ListBuckets == <<"l", "i", "s", "t", "-", "b", "u", "c", "k", "e", "t", "s">>
BucketIdentifier == <<"b", "u", "c", "k", "e", "t">>

\* (mutant) the content of an upload is not looked at
uploadObjectREST_AnyContent(req) ==
    IF ~req.bound THEN Direct(StatusBadRequest, "Invalid request")
    ELSE IF req.key = <<>> THEN Direct(StatusBadRequest, "key is required")
    ELSE Forward(Action("CreateAction", NoTarget, RestObject(req.key, <<>>), <<>>, None))

\* uploadObjectREST: POST /objects
uploadObjectREST(req) ==
    IF ~req.bound THEN Direct(StatusBadRequest, "Invalid request")
    ELSE IF req.key = <<>> THEN Direct(StatusBadRequest, "key is required")
    ELSE IF req.content = "" THEN Direct(StatusBadRequest, "content is required")
    ELSE Forward(Action("CreateAction", NoTarget, RestObject(req.key, <<>>), <<>>, None))

\* getObjectREST: GET /objects/:key
getObjectREST(req) ==
    IF req.key = <<>> THEN Direct(StatusBadRequest, "key is required")
    ELSE Forward(Action("SearchAction", NoTarget, RestObject(req.key, <<>>), <<>>, None))

\* (mutant) the envelope of a delete carries a target with credentials
deleteObjectREST_WithTarget(req) ==
    IF req.key = <<>> THEN Direct(StatusBadRequest, "key is required")
    ELSE Forward(Action("DeleteAction", GoodTarget, RestObject(req.key, <<>>), <<>>, None))

\* deleteObjectREST: DELETE /objects/:key
deleteObjectREST(req) ==
    IF req.key = <<>> THEN Direct(StatusBadRequest, "key is required")
    ELSE Forward(Action("DeleteAction", NoTarget, RestObject(req.key, <<>>), <<>>, None))

\* listBucketsREST: GET /buckets
listBucketsREST(req) ==
    Forward(Action("SearchAction", NoTarget, NoObject, <<>>, Some(ListBuckets)))

\* createBucketREST: POST /buckets
createBucketREST(req) ==
    IF ~req.bound THEN Direct(StatusBadRequest, "Invalid request")
    ELSE IF req.name = <<>> THEN Direct(StatusBadRequest, "name is required")
    ELSE Forward(Action("CreateAction", NoTarget,
                        RestObject(BucketIdentifier, req.name), <<>>, None))

\* (mutant) the envelope reaches the handler as a body it cannot parse
callSemanticHandler_Unparsed(action, st, fs) ==
    handleSemanticAction(Malformed, NoFault, st, fs)

\* callSemanticHandler: the envelope, marshalled, is the body of a request
\* given to handleSemanticAction
callSemanticHandler(action, st, fs) ==
    handleSemanticAction(Json(action), NoFault, st, fs)

\* the semantic requests of the routed server: one of each kind, one malformed
RouteBodies ==
    {Json(Action("CreateAction", GoodTarget, Object(KeyBX, <<>>, PathIn), <<>>, None)),
     Json(Action("DownloadAction", GoodTarget, Object(KeyBX, <<>>, <<>>), <<>>, None)),
     Json(Action("DeleteAction", GoodTarget, Object(KeyBX, <<>>, <<>>), <<>>, None)),
     Json(Action("SearchAction", GoodTarget, NoObject, <<>>, None)),
     Malformed}

RestKeys == {<<>>, KeyBX}
RestContents == {"", "aGk="}
RestNames == {<<>>, <<"b">>}

\* the request was turned away by the middleware: nothing else happens
Refuse(route, presented, req) ==
    /\ edge' = Edge(route, presented, FALSE, FALSE, 0, "", req, None)
    /\ UNCHANGED <<program, apiKey, inflight, life>>

\* a REST endpoint behind the middleware
ServeRest(route, presented, req, adapted) ==
    IF ~ActionRoute(apiKey, presented) THEN Refuse(route, presented, req)
    ELSE IF ~IsSome(adapted.forwarded)
    THEN /\ edge' = Edge(route, presented, TRUE, FALSE, adapted.http, adapted.error,
                         req, None)
         /\ UNCHANGED <<program, apiKey, inflight, life>>
    ELSE \E out \in {callSemanticHandler(Get(adapted.forwarded), store, files)} :
            /\ Respond(out)
            /\ edge' = Edge(route, presented, TRUE, TRUE, out.resp.http, "", req,
                            adapted.forwarded)
            /\ UNCHANGED <<apiKey, inflight, life>>

GetHealth ==
    \E k \in PresentedKeys :
        \E h \in {HealthRoute(apiKey, k)} :
            /\ edge' = Edge("health", k, h.admitted, FALSE, h.http, "", NoRest, None)
            /\ UNCHANGED <<program, apiKey, inflight, life>>

PostSemanticAction ==
    \E k \in PresentedKeys, body \in RouteBodies :
        IF ~ActionRoute(apiKey, k) THEN Refuse("action", k, NoRest)
        ELSE \E out \in {handleSemanticAction(body, NoFault, store, files)} :
                /\ Respond(out)
                /\ edge' = Edge("action", k, TRUE, TRUE, out.resp.http, "", NoRest, None)
                /\ UNCHANGED <<apiKey, inflight, life>>

PostObjects ==
    \E k \in PresentedKeys, b \in BOOLEAN, key \in RestKeys, c \in RestContents :
        \E req \in {Rest(b, key, c, <<>>)} :
            ServeRest("objects.post", k, req, uploadObjectREST(req))

GetObjects ==
    \E k \in PresentedKeys, key \in RestKeys :
        \E req \in {Rest(TRUE, key, "", <<>>)} :
            ServeRest("objects.get", k, req, getObjectREST(req))

DeleteObjects ==
    \E k \in PresentedKeys, key \in RestKeys :
        \E req \in {Rest(TRUE, key, "", <<>>)} :
            ServeRest("objects.delete", k, req, deleteObjectREST(req))

GetBuckets ==
    \E k \in PresentedKeys : ServeRest("buckets.get", k, NoRest, listBucketsREST(NoRest))

PostBuckets ==
    \E k \in PresentedKeys, b \in BOOLEAN, n \in RestNames :
        \E req \in {Rest(b, <<>>, "", n)} :
            ServeRest("buckets.post", k, req, createBucketREST(req))

\* the server started with or without S3_API_KEY
RouteInit == Empty /\ apiKey \in ApiKeys /\ life = Listening

RouteNext ==
    \/ GetHealth
    \/ PostSemanticAction
    \/ PostObjects
    \/ GetObjects
    \/ DeleteObjects
    \/ GetBuckets
    \/ PostBuckets

RouteSpec == RouteInit /\ [][RouteNext]_vars

-----------------------------------------------------------------------------
(* The life of the service: main registers, starts the server in a goroutine, *)
(* waits for SIGINT or SIGTERM, unregisters, closes the server and returns.   *)

\* what main's steps leave alone
requests == <<program, apiKey, edge, inflight>>

Register ==
    /\ life.phase = "init"
    /\ \E ok \in BOOLEAN : life' = AutoRegister(life, ok)
    /\ UNCHANGED requests

StartServer ==
    /\ life.phase = "registered"
    /\ life' = Go(life)
    /\ UNCHANGED requests

\* the server goroutine gets to run e.Start, while the process lives
Listen ==
    /\ life.server = "starting"
    /\ life.phase # "stopped"
    /\ \E ok \in BOOLEAN : life' = Start(life, ok)
    /\ UNCHANGED requests

Signal ==
    /\ life.phase = "waiting"
    /\ life' = Quit(life)
    /\ UNCHANGED requests

Unregister ==
    /\ life.phase = "shutting"
    /\ \E ok \in BOOLEAN : life' = AutoUnregister(life, ok)
    /\ UNCHANGED requests

CloseServer ==
    /\ life.phase = "unregistered"
    /\ \E ok \in BOOLEAN : life' = Close(life, ok)
    /\ UNCHANGED requests

Exit ==
    /\ life.phase = "closed"
    /\ life' = Return(life)
    /\ UNCHANGED requests

\* requests are answered while the server listens
Health == life.server = "listening" /\ GetHealth
SemanticAction == life.server = "listening" /\ PostSemanticAction

Main == Register \/ StartServer \/ Unregister \/ CloseServer \/ Exit

LifeInit == Empty /\ apiKey \in ApiKeys /\ life = Fresh

LifeNext ==
    \/ Register
    \/ StartServer
    \/ Listen
    \/ Signal
    \/ Unregister
    \/ CloseServer
    \/ Exit
    \/ Health
    \/ SemanticAction

LifeSpec == LifeInit /\ [][LifeNext]_vars

\* main is a running goroutine: it takes its next step unless it waits for a
\* signal; the signal itself and the requests may never come
FairLifeSpec == LifeSpec /\ WF_vars(Main)

-----------------------------------------------------------------------------
(* Two downloads at once.  echo serves each request on its own goroutine; the *)
(* steps of executeDownloadAction that touch the store or the file system     *)
(* are taken one at a time, in any order across the goroutines.               *)

\* the bucket of this specification: two objects with the same base name
ObjectBX == <<1, 2>>
ObjectXX == <<3>>
StoredObjects ==
    [k \in AllKeys |-> IF k = KeyBX THEN Some(ObjectBX)
                       ELSE IF k = KeyXX THEN Some(ObjectXX)
                       ELSE None]

\* downloads to the default path and to a given one, of a key that is not
\* stored, and one without a target
ConcurrentRequests ==
    {Action("DownloadAction", GoodTarget, o, <<>>, None) :
        o \in {Object(KeyBX, <<>>, <<>>), Object(KeyXX, <<>>, <<>>),
               Object(KeyXX, <<>>, PathIn), Object(KeyX, <<>>, <<>>)}}
        \cup {Action("DownloadAction", NoTarget, Object(KeyBX, <<>>, <<>>), <<>>, None)}

\* File.Write of one byte at the offset of the writer's own descriptor; a gap
\* left by another writer's truncation reads as zero bytes
WriteAt(content, offset, byte) ==
    [i \in 1..(IF Len(content) > offset THEN Len(content) ELSE offset + 1) |->
        IF i = offset + 1 THEN byte
        ELSE IF i <= Len(content) THEN content[i]
        ELSE 0]

\* (mutant) the size reported is the size of the file as it is found
Copied_FileSize(slot, fs) == Len(Get(fs[slot.env.localPath]))

\* the size io.Copy returns: the bytes this handler wrote
Copied(slot, fs) == slot.written

\* executeDownloadAction up to the S3 client: the envelope with key and path,
\* or the Failed response
BeginDownload(action) ==
    LET env == [Envelope(action) EXCEPT !.handler = "download"]
        bucket == GetS3BucketFromAction(action)
        object == GetS3ObjectFromAction(action)
        creds == ExtractS3Credentials(bucket.bucket)
        s3Key == ObjectKey(object.object)
        downloadPath == DownloadPath(object.object.contentUrl, s3Key)
        keyed == [env EXCEPT !.s3Key = s3Key, !.localPath = downloadPath]
        Answer(r) == [failed |-> TRUE, env |-> r]
    IN IF bucket.err THEN Answer(returnError(env, "Failed to extract S3 bucket"))
       ELSE IF object.err THEN Answer(returnError(env, "Failed to extract S3 object"))
       ELSE IF creds.err THEN Answer(returnError(env, "Failed to extract S3 credentials"))
       ELSE IF s3Key = <<>>
       THEN Answer(returnError(env, "Object identifier (S3 key) is required"))
       ELSE [failed |-> FALSE, env |-> keyed]

\* what the steps of the handlers leave alone
served == <<uploaded, deleted, repeated, apiKey, edge, life>>

\* a goroutine takes a request and runs the handler up to the fetch
Accept(g) ==
    /\ inflight[g].pc \in {"idle", "done"}
    /\ \E a \in ConcurrentRequests :
          \E b \in {BeginDownload(a)} :
             /\ inflight' =
                   [h \in Goroutines |->
                      IF h = g
                      THEN Slot(IF b.failed THEN "done" ELSE "fetch", a, b.env, <<>>, 0,
                                {k \in Goroutines \ {g} : inflight[k].pc = "done"})
                      ELSE [inflight[h] EXCEPT !.after = @ \ {g}]]
             /\ resp' = IF b.failed THEN b.env ELSE resp
    /\ UNCHANGED <<store, files, served>>

\* client.GetObject
Fetch(g) ==
    /\ inflight[g].pc = "fetch"
    /\ \E got \in {GetObject(store, inflight[g].env.s3Key, NoFault)} :
          \E sent \in {[inflight[g].env EXCEPT !.storeCalls = got.calls]} :
             IF got.err
             THEN \E r \in {returnError(sent, "Failed to download file")} :
                     /\ inflight' = [inflight EXCEPT ![g].pc = "done", ![g].env = r]
                     /\ resp' = r
             ELSE /\ inflight' = [inflight EXCEPT ![g].pc = "create", ![g].env = sent,
                                                  ![g].body = got.body]
                  /\ resp' = resp
    /\ UNCHANGED <<store, files, served>>

\* os.Create
CreateFile(g) ==
    /\ inflight[g].pc = "create"
    /\ files' = Create(files, inflight[g].env.localPath)
    /\ inflight' = [inflight EXCEPT ![g].pc = "copy"]
    /\ UNCHANGED <<store, resp, served>>

\* io.Copy, one byte of the body
WriteByte(g) ==
    /\ inflight[g].pc = "copy"
    /\ inflight[g].written < Len(inflight[g].body)
    /\ files' = [files EXCEPT ![inflight[g].env.localPath] =
                    Some(WriteAt(Get(@), inflight[g].written,
                                 inflight[g].body[inflight[g].written + 1]))]
    /\ inflight' = [inflight EXCEPT ![g].written = @ + 1]
    /\ UNCHANGED <<store, resp, served>>

\* io.Copy returns at the end of the body: result, success, response
Finish(g) ==
    /\ inflight[g].pc = "copy"
    /\ inflight[g].written = Len(inflight[g].body)
    /\ \E env \in {inflight[g].env} :
          \E downloadedObject \in
                {[type |-> "MediaObject", identifier |-> env.s3Key,
                  name |-> Base(env.s3Key), contentUrl |-> env.localPath,
                  contentSize |-> Copied(inflight[g], files),
                  encodingFormat |-> env.object.encodingFormat]} :
             \E r \in {JSONOK(SetSuccessOnAction(
                          [env EXCEPT !.result = Some(downloadedObject)]))} :
                /\ inflight' = [inflight EXCEPT ![g].pc = "done", ![g].env = r]
                /\ resp' = r
    /\ UNCHANGED <<store, files, served>>

ConcurrentInit ==
    /\ store = StoredObjects
    /\ files = [p \in Paths |-> IF p = PathIn THEN Some(InitialContent) ELSE None]
    /\ resp = NoResponse
    /\ uploaded = [k \in AllKeys |-> None]
    /\ deleted = {}
    /\ repeated = FALSE
    /\ edge = NoEdge
    /\ inflight = [g \in Goroutines |-> IdleSlot]
    /\ apiKey = ""
    /\ life = Listening

ConcurrentNext ==
    \E g \in Goroutines :
        \/ Accept(g)
        \/ Fetch(g)
        \/ CreateFile(g)
        \/ WriteByte(g)
        \/ Finish(g)

ConcurrentSpec == ConcurrentInit /\ [][ConcurrentNext]_vars

-----------------------------------------------------------------------------
(* What the last response says.                                               *)

SupportedTypes == {"CreateAction", "DownloadAction", "DeleteAction", "SearchAction"}
Handled == resp.handler \in {"upload", "download", "delete", "list"}
Completed == resp.actionStatus = ActionCompleted
Failed == resp.actionStatus = ActionFailed
HasResult == IsSome(resp.result)
HasError == resp.error # ""
StoreCalled == resp.storeCalls # <<>>
StoreCallOk == StoreCalled /\ resp.storeCalls[1].ok
StoredKeys(st) == {k \in DOMAIN st : IsSome(st[k])}

ValidEnvelope ==
    /\ Handled
    /\ resp.lacks = ""
    /\ resp.handler # "list" => (resp.hasObject /\ resp.s3Key # <<>>)
    /\ resp.handler = "upload" => resp.localPath # <<>>

LocalFileErrors == {"Failed to create local file", "Failed to write file"}

\* C2 as stated: for a valid envelope with resolvable credentials the response
\* is Completed without error exactly when the store call succeeds.
C2_CompletedIffStoreCall ==
    ValidEnvelope => ((Completed /\ ~HasError) <=> StoreCallOk)

\* C2: for a valid envelope with resolvable credentials, an upload, delete or
\* list is Completed without error exactly when its store call succeeds; a
\* download is Completed only when its store call succeeds, and after a
\* successful store call it is Failed exactly when the local file could not be
\* created or written.
C2_CompletedIffStoreCallAndFile ==
    ValidEnvelope =>
        /\ resp.handler # "download" => ((Completed /\ ~HasError) <=> StoreCallOk)
        /\ resp.handler = "download" =>
            /\ (Completed /\ ~HasError) => StoreCallOk
            /\ StoreCallOk => (Completed <=> resp.error \notin LocalFileErrors)
            /\ resp.error \in LocalFileErrors => (StoreCallOk /\ Failed)

\* a download whose object was fetched and whose local file could not be created
C2_FetchedButNotWritten ==
    /\ resp.handler = "download"
    /\ ValidEnvelope
    /\ StoreCallOk
    /\ Failed
    /\ resp.error = "Failed to create local file"

C5_CredentialsError ==
    (Handled /\ resp.lacks = "credentials") =>
        /\ Failed
        /\ resp.error = "Failed to extract S3 credentials"
        /\ ~StoreCalled

\* C5: a target lacking a credential field ends Failed with no store call; the
\* message is the credentials error for a list and for an upload, download or
\* delete that carries an object, and the object error for one that carries
\* none.
C5_CredentialsErrorAfterObject ==
    (Handled /\ resp.lacks = "credentials") =>
        /\ Failed
        /\ ~StoreCalled
        /\ (resp.handler = "list" \/ resp.hasObject)
              => resp.error = "Failed to extract S3 credentials"
        /\ (resp.handler # "list" /\ ~resp.hasObject)
              => resp.error = "Failed to extract S3 object"

\* a list refused for its credentials while the store holds what it asks for
C5_ListRefused ==
    /\ resp.handler = "list"
    /\ resp.lacks = "credentials"
    /\ resp.error = "Failed to extract S3 credentials"
    /\ StoredKeys(store) # {}

ResultIdentifiers == {Get(resp.result)[i].identifier : i \in 1..Len(Get(resp.result))}
HasQuery == IsSome(resp.query) /\ Get(resp.query) # <<>>
Matching(st, p) == {k \in StoredKeys(st) : HasPrefix(k, p)}

\* C6: a Completed download of a key whose last write was a Completed upload
\* leaves at the download path a file with exactly the content the uploaded
\* file had.
C6_RoundTrip ==
    (resp.handler = "download" /\ Completed /\ IsSome(uploaded[resp.s3Key])) =>
        /\ files[resp.localPath] = uploaded[resp.s3Key]
        /\ Get(resp.result).contentSize = Len(Get(uploaded[resp.s3Key]))

\* an uploaded object downloaded to a path other than the one it came from
C6_DownloadedElsewhere ==
    /\ resp.handler = "download"
    /\ Completed
    /\ IsSome(uploaded[resp.s3Key])
    /\ resp.localPath = PathTmpX
    /\ files[PathTmpX] = Some(InitialContent)

\* C7: a Completed delete of a key already deleted (and not written since)
\* leaves the stored keys, and what is stored under them, as they were: the key
\* stays absent and no other key is removed.
C7_DeleteTwice ==
    [][(repeated' /\ resp'.actionStatus = ActionCompleted) =>
        /\ StoredKeys(store') = StoredKeys(store)
        /\ store' = store
        /\ resp'.s3Key \notin StoredKeys(store')]_vars

\* a key deleted a second time while a key it is a prefix of is stored
C7_DeletedTwice ==
    /\ repeated
    /\ resp.handler = "delete"
    /\ Completed
    /\ resp.s3Key = KeyX
    /\ IsSome(store[KeyXX])

\* C8: from a Completed delete of a key until an upload writes it again, the
\* key is absent from the store, no list result contains it and a download of
\* it ends Failed.
C8_DeletedStaysAbsent ==
    /\ \A k \in deleted : ~IsSome(store[k])
    /\ (resp.handler = "list" /\ Completed) => ResultIdentifiers \cap deleted = {}
    /\ (resp.handler = "download" /\ resp.s3Key \in deleted) =>
            /\ Failed
            /\ ~StoreCallOk
            /\ StoreCalled => resp.error = "Failed to download file"

\* a download of a deleted key, asked for with nothing else going wrong
C8_DownloadOfDeleted ==
    /\ resp.handler = "download"
    /\ resp.s3Key \in deleted
    /\ StoreCalled
    /\ Failed
    /\ resp.error = "Failed to download file"
    /\ StoredKeys(store) # {}

\* C9: a Completed list with a non-empty query returns only descriptors whose
\* key starts with the query, namely the first page of the stored keys that do;
\* with an empty or absent query no prefix filter is applied and it returns the
\* first page of all stored keys.
C9_PrefixFilter ==
    (resp.handler = "list" /\ Completed) =>
        /\ HasQuery =>
            /\ \A id \in ResultIdentifiers : HasPrefix(id, Get(resp.query))
            /\ ResultIdentifiers \subseteq Matching(store, Get(resp.query))
            /\ Len(Get(resp.result)) =
                   Min(Cardinality(Matching(store, Get(resp.query))), ListPageSize)
        /\ ~HasQuery =>
            /\ ResultIdentifiers \subseteq StoredKeys(store)
            /\ Len(Get(resp.result)) = Min(Cardinality(StoredKeys(store)), ListPageSize)

\* a list under a prefix that leaves out a stored key
C9_FilteredOut ==
    /\ resp.handler = "list"
    /\ Completed
    /\ HasQuery
    /\ ResultIdentifiers # {}
    /\ StoredKeys(store) \ Matching(store, Get(resp.query)) # {}

-----------------------------------------------------------------------------
(* Keys, failure points, status writes and store calls.                        *)

UploadReachedStore == resp.handler = "upload" /\ StoreCalled

\* C11 as stated: an upload stores under the object identifier if non-empty,
\* otherwise under the target key if non-empty, otherwise under the base name
\* of the local path.
C11_IdentifierFirst ==
    UploadReachedStore =>
        resp.storeCalls[1].key =
            IF resp.object.identifier # <<>> THEN resp.object.identifier
            ELSE IF resp.targetUrl # <<>> THEN resp.targetUrl
            ELSE Base(resp.object.contentUrl)

\* C11: an upload stores under the target key (targetUrl) if non-empty,
\* otherwise under the object identifier if non-empty, otherwise under the
\* base name of the local path; a Completed upload leaves the file's content
\* under that key.
C11_TargetUrlFirst ==
    UploadReachedStore =>
        LET key == IF resp.targetUrl # <<>> THEN resp.targetUrl
                   ELSE IF resp.object.identifier # <<>> THEN resp.object.identifier
                   ELSE Base(resp.object.contentUrl)
        IN /\ resp.storeCalls[1].op = "PutObject"
           /\ resp.storeCalls[1].key = key
           /\ resp.s3Key = key
           /\ Completed => (IsSome(store[key]) /\ store[key] = uploaded[key])

\* an upload with both a target key and a different identifier, stored under
\* the target key
C11_BothGiven ==
    /\ UploadReachedStore
    /\ Completed
    /\ resp.targetUrl = KeyXX
    /\ resp.object.identifier = KeyBX
    /\ IsSome(store[KeyXX])
    /\ ~IsSome(store[KeyBX])

KeyedHandler(r) ==
    /\ r.handler \in {"download", "delete"}
    /\ r.lacks = ""
    /\ r.hasObject

\* C12: a download or delete uses the object identifier as key and the object
\* name only when the identifier is empty; when both are empty the request ends
\* Failed with the missing-key error, no store call is issued and neither the
\* store nor any local file changes.
C12_IdentifierThenName ==
    [][KeyedHandler(resp') =>
        /\ resp'.object.identifier # <<>> => resp'.s3Key = resp'.object.identifier
        /\ (resp'.object.identifier = <<>> /\ resp'.object.name # <<>>)
              => resp'.s3Key = resp'.object.name
        /\ resp'.storeCalls # <<>> => resp'.storeCalls[1].key = resp'.s3Key
        /\ (resp'.object.identifier = <<>> /\ resp'.object.name = <<>>) =>
              /\ resp'.actionStatus = ActionFailed
              /\ resp'.error = "Object identifier (S3 key) is required"
              /\ resp'.storeCalls = <<>>
              /\ store' = store
              /\ files' = files]_vars

\* a delete by name, with no identifier, that removed the key of that name
C12_ByName ==
    /\ resp.handler = "delete"
    /\ KeyedHandler(resp)
    /\ resp.object.identifier = <<>>
    /\ resp.object.name = KeyBX
    /\ Completed
    /\ resp.storeCalls[1].key = KeyBX
    /\ KeyBX \in deleted

\* C13: in a download, a failed fetch ends Failed with the download message
\* and a failure to create or write the local file, which can only follow a
\* successful fetch, ends Failed with one of the two local-file messages, so
\* the message tells which step failed.
C13_DistinctFailurePoints ==
    (resp.handler = "download" /\ StoreCalled) =>
        /\ ~StoreCallOk => (Failed /\ resp.error = "Failed to download file")
        /\ (StoreCallOk /\ Failed) => resp.error \in LocalFileErrors
        /\ "Failed to download file" \notin LocalFileErrors
        /\ resp.error = "Failed to download file" => ~StoreCallOk
        /\ resp.error = "Failed to write file" => IsSome(files[resp.localPath])

\* a download whose fetch succeeded and whose copy to the local file broke off
C13_WriteFailed ==
    /\ resp.handler = "download"
    /\ StoreCallOk
    /\ Failed
    /\ resp.error = "Failed to write file"
    /\ files[resp.localPath] = Some(<<>>)

\* C19: every handler response carries a terminal status, Completed or Failed,
\* never Potential, and the status was written exactly once while the request
\* was served; a request no handler saw keeps its status unwritten.
C19_StatusWrittenOnce ==
    /\ Handled =>
        /\ resp.statusWrites = 1
        /\ resp.actionStatus \in {ActionCompleted, ActionFailed}
    /\ ~Handled =>
        /\ resp.statusWrites = 0
        /\ resp.actionStatus = ActionPotential

\* a Completed upload: one status write, after the store call
C19_CompletedOnce ==
    /\ resp.handler = "upload"
    /\ StoreCallOk
    /\ Completed
    /\ resp.statusWrites = 1

StoreOperation ==
    [upload |-> "PutObject", download |-> "GetObject",
     delete |-> "DeleteObject", list |-> "ListObjectsV2"]

\* C20: a handler invocation issues at most one call to the store, of the
\* kind of its handler, and a failed store call is not issued again.
C20_AtMostOneStoreCall ==
    Handled =>
        /\ Len(resp.storeCalls) <= 1
        /\ \A i \in 1..Len(resp.storeCalls) :
              resp.storeCalls[i].op = StoreOperation[resp.handler]
        /\ (StoreCalled /\ ~StoreCallOk) => (Failed /\ Len(resp.storeCalls) = 1)

\* a fetch that failed at the store and was issued once
C20_FailedOnce ==
    /\ resp.handler = "download"
    /\ StoreCalled
    /\ ~StoreCallOk
    /\ Len(resp.storeCalls) = 1
    /\ IsSome(store[resp.s3Key])

-----------------------------------------------------------------------------
(* The REST endpoints, the API key and /health (RouteSpec).                    *)

RestRoutes == {"objects.post", "objects.get", "objects.delete", "buckets.get",
               "buckets.post"}

\* what the REST validation refuses: a body that does not bind, an empty key,
\* empty content, an empty bucket name
Invalid(e) ==
    \/ e.route \in {"objects.post", "buckets.post"} /\ ~e.request.bound
    \/ e.route = "objects.post" /\ (e.request.key = <<>> \/ e.request.content = "")
    \/ e.route \in {"objects.get", "objects.delete"} /\ e.request.key = <<>>
    \/ e.route = "buckets.post" /\ e.request.name = <<>>

\* C14: a REST request that fails its validation (POST /objects with an empty
\* key or empty content, GET or DELETE /objects/:key with an empty key, POST
\* /buckets with an empty name) is answered with 400 directly once past the
\* key middleware: no envelope is built, the action handler is not invoked,
\* and the store, the files and the last handler response stay as they were.
C14_ValidationBeforeConversion ==
    [][(edge'.route \in RestRoutes /\ Invalid(edge')) =>
        /\ edge'.admitted => (edge'.http = StatusBadRequest /\ edge'.error # "")
        /\ edge'.forwarded = None
        /\ ~edge'.reached
        /\ UNCHANGED program]_vars

\* an upload without content refused while an object is stored
C14_EmptyContentRefused ==
    /\ edge.route = "objects.post"
    /\ edge.admitted
    /\ edge.request.key = KeyBX
    /\ edge.request.content = ""
    /\ edge.http = StatusBadRequest
    /\ edge.error = "content is required"
    /\ IsSome(store[KeyBX])

\* the envelope the adapter is said to build for each REST request
AdapterEnvelope(e) ==
    CASE e.route = "objects.post" ->
            Action("CreateAction", NoTarget,
                   [present |-> TRUE, identifier |-> e.request.key, name |-> <<>>,
                    contentUrl |-> <<>>, encodingFormat |-> ""], <<>>, None)
      [] e.route = "objects.get" ->
            Action("SearchAction", NoTarget,
                   [present |-> TRUE, identifier |-> e.request.key, name |-> <<>>,
                    contentUrl |-> <<>>, encodingFormat |-> ""], <<>>, None)
      [] e.route = "objects.delete" ->
            Action("DeleteAction", NoTarget,
                   [present |-> TRUE, identifier |-> e.request.key, name |-> <<>>,
                    contentUrl |-> <<>>, encodingFormat |-> ""], <<>>, None)
      [] e.route = "buckets.get" ->
            Action("SearchAction", NoTarget, NoObject, <<>>, Some(ListBuckets))
      [] e.route = "buckets.post" ->
            Action("CreateAction", NoTarget,
                   [present |-> TRUE, identifier |-> BucketIdentifier,
                    name |-> e.request.name, contentUrl |-> <<>>,
                    encodingFormat |-> ""], <<>>, None)

\* C15: for every REST request that passes the key middleware and the
\* validation, the response, the store and the files are exactly those of
\* posting the envelope of the adapter (upload -> CreateAction, get ->
\* SearchAction, delete -> DeleteAction, list-buckets -> SearchAction with the
\* query "list-buckets") to the semantic action handler.
C15_RestIsSemantic ==
    [][(edge'.route \in RestRoutes /\ edge'.admitted /\ ~Invalid(edge')) =>
        \E out \in {handleSemanticAction(Json(AdapterEnvelope(edge')), NoFault,
                                         store, files)} :
            /\ edge'.reached
            /\ edge'.forwarded = Some(AdapterEnvelope(edge'))
            /\ resp' = out.resp
            /\ store' = out.store
            /\ files' = out.files
            /\ edge'.http = out.resp.http]_vars

\* a REST delete answered by the delete handler while the key is stored
C15_DeleteForwarded ==
    /\ edge.route = "objects.delete"
    /\ edge.reached
    /\ edge.request.key = KeyBX
    /\ resp.handler = "delete"
    /\ resp.type = "DeleteAction"
    /\ edge.http = resp.http
    /\ IsSome(store[KeyBX])

\* the handler each REST endpoint is named for
NamedHandler ==
    [objects_post |-> "upload", objects_get |-> "download",
     objects_delete |-> "delete", buckets_get |-> "list"]

\* C16 as stated: each REST endpoint performs the operation it is named for:
\* POST /objects the upload, GET /objects/:key the download and DELETE
\* /objects/:key the delete of the given key, GET /buckets the list.
C16_RestPerformsNamedOperation ==
    (edge.route \in RestRoutes /\ edge.reached) =>
        /\ edge.route = "objects.post" =>
              (resp.handler = NamedHandler.objects_post
                  /\ resp.object.identifier = edge.request.key)
        /\ edge.route = "objects.get" =>
              (resp.handler = NamedHandler.objects_get
                  /\ resp.object.identifier = edge.request.key)
        /\ edge.route = "objects.delete" =>
              (resp.handler = NamedHandler.objects_delete
                  /\ resp.object.identifier = edge.request.key)
        /\ edge.route = "buckets.get" => resp.handler = NamedHandler.buckets_get

\* C17: a request to the action endpoint reaches the handler exactly when no
\* key is configured or the request presents the configured key; a request
\* turned away changes nothing, and the configured key never changes.
C17_KeyCheckedIffConfigured ==
    [][/\ apiKey' = apiKey
       /\ edge'.route = "action" =>
            /\ edge'.reached <=> (apiKey = "" \/ edge'.presented = Some(apiKey))
            /\ ~edge'.reached => UNCHANGED program]_vars

\* a request with a wrong key turned away from a server that has a key
C17_WrongKeyRefused ==
    /\ apiKey = Secret
    /\ edge.route = "action"
    /\ edge.presented = Some("wrong")
    /\ ~edge.admitted
    /\ ~edge.reached
    /\ IsSome(store[KeyBX])

\* C18: GET /health is answered with 200 whether or not a key is configured,
\* whether or not the request carries one, and whatever the outcome of the
\* requests before it.
C18_HealthAlwaysOK ==
    edge.route = "health" => (edge.admitted /\ edge.http = StatusOK)

\* /health answered without a key, on a server that has one, after a failed action
C18_HealthAfterFailure ==
    /\ edge.route = "health"
    /\ apiKey = Secret
    /\ edge.presented = None
    /\ edge.http = StatusOK
    /\ resp.actionStatus = ActionFailed

-----------------------------------------------------------------------------
(* The result of an upload *)

-----------------------------------------------------------------------------
(* The frame of a request on the store *)

\* C22: a request leaves the stored content of every key other than its
\* resolved key unchanged, and a list or download request (like a request
\* that reaches no handler) leaves the whole store unchanged.
C22_StoreFrame ==
    [][/\ \A k \in AllKeys : k # resp'.s3Key => store'[k] = store[k]
       /\ resp'.handler \in {"list", "download", "none"} => store' = store]_vars

\* a Completed delete of one key while the two other keys stay stored
C22_OthersSurviveDelete ==
    /\ resp.handler = "delete"
    /\ Completed
    /\ ~IsSome(store[resp.s3Key])
    /\ \A k \in AllKeys \ {resp.s3Key} : IsSome(store[k])

-----------------------------------------------------------------------------
(* Dispatch *)

\* the one store operation behind each action type
TypeOperation ==
    [CreateAction |-> "PutObject", DownloadAction |-> "GetObject",
     DeleteAction |-> "DeleteObject", SearchAction |-> "ListObjectsV2"]
TypeHandler ==
    [CreateAction |-> "upload", DownloadAction |-> "download",
     DeleteAction |-> "delete", SearchAction |-> "list"]

\* C24: dispatch is 1:1 and exclusive.  A request of a supported type is served
\* by the handler of that type and every store call it leads to is the one
\* operation of that type; any other request leads to no store call.  A
\* delete issues nothing but its one delete call, needs no object to be there,
\* and ends Completed exactly when that call succeeded.
C24_DispatchExclusive ==
    /\ resp.type \in SupportedTypes =>
          /\ resp.handler = TypeHandler[resp.type]
          /\ \A i \in 1..Len(resp.storeCalls) :
                resp.storeCalls[i].op = TypeOperation[resp.type]
    /\ resp.type \notin SupportedTypes =>
          (resp.handler = "none" /\ resp.storeCalls = <<>>)
    /\ (resp.type = "DeleteAction" /\ StoreCalled) =>
          /\ resp.storeCalls = <<Call("DeleteObject", resp.s3Key, Completed)>>
          /\ Failed = ~Completed

\* a delete of a key deleted before: one delete call, answered Completed
C24_DeletedUnchecked ==
    /\ resp.type = "DeleteAction"
    /\ repeated
    /\ resp.storeCalls = <<Call("DeleteObject", resp.s3Key, TRUE)>>
    /\ Completed

-----------------------------------------------------------------------------
(* The local file of a download *)

\* the path the claims name for a download: the request's contentUrl when it
\* is not empty, else /tmp/<base name of the key>
NamedPath(r) ==
    IF r.object.contentUrl # <<>> THEN r.object.contentUrl
    ELSE TmpDir \o <<Slash>> \o Base(r.s3Key)

\* C25: a Completed download has written the fetched object to the request's
\* contentUrl when that is not empty and to /tmp/<base name of the key>
\* otherwise, has written no other path, and reports in its result's
\* contentUrl the path it wrote.
C25_WrittenWhereReported ==
    [][(resp'.handler = "download" /\ resp'.actionStatus = ActionCompleted) =>
          /\ files'[NamedPath(resp')] = store[resp'.s3Key]
          /\ \A p \in Paths \ {NamedPath(resp')} : files'[p] = files[p]
          /\ Get(resp'.result).contentUrl = NamedPath(resp')]_vars

\* a Completed download without a path of its own, found under /tmp
C25_DefaultPathWritten ==
    /\ resp.handler = "download"
    /\ Completed
    /\ resp.object.contentUrl = <<>>
    /\ resp.s3Key = KeyBX
    /\ Get(resp.result).contentUrl = PathTmpX
    /\ files[PathTmpX] = store[KeyBX]

\* C26: the local file of a download is created or truncated only after the
\* fetch has succeeded.  A download that ends Failed without a successful
\* fetch (credentials, key, client or the fetch itself) leaves every local
\* path as it was; one that ends Failed after the fetch changes at most its
\* own path, and changes it only by a failed copy, which leaves a created file
\* holding the part of the object written so far.
C26_FileUntouchedBeforeFetch ==
    [][(resp'.handler = "download" /\ resp'.actionStatus = ActionFailed) =>
          /\ (resp'.storeCalls = <<>> \/ ~resp'.storeCalls[1].ok) => files' = files
          /\ \A p \in Paths \ {resp'.localPath} : files'[p] = files[p]
          /\ (resp'.localPath \in Paths /\ files'[resp'.localPath] # files[resp'.localPath]) =>
                /\ resp'.error = "Failed to write file"
                /\ IsSome(files'[resp'.localPath])
                /\ HasPrefix(Get(store[resp'.s3Key]), Get(files'[resp'.localPath]))]_vars

\* a download that failed while copying and left a truncated file behind,
\* where the uploaded file had been
C26_PartialFileLeft ==
    /\ resp.handler = "download"
    /\ Failed
    /\ resp.error = "Failed to write file"
    /\ resp.localPath = PathIn
    /\ files[PathIn] = Some(<<>>)
    /\ store[resp.s3Key] = Some(InitialContent)

-----------------------------------------------------------------------------
(* The REST endpoints and the store (RouteSpec) *)

-----------------------------------------------------------------------------
(* The order of start-up and shutdown (FairLifeSpec) *)

\* C29: the registry is called once to register before the server is
\* started, and the server is started whether or not that call failed; after
\* SIGINT or SIGTERM the registry is called to unregister before the server
\* is closed, the server is closed whether or not that call failed, and
\* main then returns.
C29_LifecycleOrder ==
    /\ [](life.registrations <= 1 /\ life.unregistrations <= 1)
    /\ [](life.server # "new" => life.registrations = 1)
    /\ [](life.server = "closed" => life.unregistrations = 1)
    /\ [](life.unregistrations = 1 => life.phase \notin {"init", "registered", "waiting"})
    /\ [](life.phase = "stopped" => life.server = "closed")
    /\ (life.phase = "registered") ~> (life.server # "new")
    /\ (life.phase = "shutting") ~> (life.unregistrations = 1 /\ life.server # "closed")
    /\ (life.phase = "unregistered") ~> (life.server = "closed")
    /\ (life.phase = "shutting") ~> (life.phase = "stopped")

\* the service stopped after both registry calls had failed
C29_StoppedDespiteRegistry ==
    /\ life.phase = "stopped"
    /\ life.server = "closed"
    /\ life.registered = FALSE
    /\ SelectSeq(life.log, LAMBDA m : m = "Failed to register with registry") # <<>>
    /\ SelectSeq(life.log, LAMBDA m : m = "Failed to unregister from registry") # <<>>
    /\ resp.handler = "download"

-----------------------------------------------------------------------------
(* Requests handled at once (ConcurrentSpec) *)

Done(g) == inflight[g].pc = "done"
DoneCompleted(g) == Done(g) /\ inflight[g].env.actionStatus = ActionCompleted
\* the response the request of g gets when it is served alone
Alone(g) == handleSemanticAction(Json(inflight[g].action), NoFault, store, files).resp
\* g and h were being handled at the same time
Overlapped(g, h) == g # h /\ h \notin inflight[g].after /\ g \notin inflight[h].after

C27_SameBaseNameSameFile ==
    \A g \in Goroutines :
        /\ (inflight[g].pc \in {"fetch", "create", "copy"} \/ DoneCompleted(g)) =>
              /\ inflight[g].action.object.contentUrl = <<>> =>
                    inflight[g].env.localPath =
                        TmpDir \o <<Slash>> \o Base(inflight[g].env.s3Key)
              /\ \A h \in Goroutines :
                    (/\ inflight[h].pc \in {"fetch", "create", "copy"} \/ DoneCompleted(h)
                     /\ inflight[g].action.object.contentUrl = <<>>
                     /\ inflight[h].action.object.contentUrl = <<>>
                     /\ Base(inflight[g].env.s3Key) = Base(inflight[h].env.s3Key)) =>
                        inflight[g].env.localPath = inflight[h].env.localPath
        /\ (DoneCompleted(g) /\ inflight[g].after = Goroutines \ {g}) =>
              files[inflight[g].env.localPath] = store[inflight[g].env.s3Key]

\* b/x and x/x downloaded at the same time to /tmp/x, both answered Completed,
\* and the file holds the object of neither
C27_Interleaved ==
    /\ Overlapped(1, 2)
    /\ DoneCompleted(1)
    /\ DoneCompleted(2)
    /\ {inflight[1].env.s3Key, inflight[2].env.s3Key} = {KeyBX, KeyXX}
    /\ inflight[1].env.localPath = PathTmpX
    /\ inflight[2].env.localPath = PathTmpX
    /\ files[PathTmpX] \notin {Some(ObjectBX), Some(ObjectXX)}

====
